---- MODULE Spec2Model ----
(***************************************************************************)
(* slack-cc-proxy: the session/stream multiplexer of handleMessage,        *)
(* askClaude and askSDK, as a state machine over the Node event loop.      *)
(* One action is one event-loop task: an event handler together with the   *)
(* promise continuations (microtasks) it makes runnable.                   *)
(***************************************************************************)
EXTENDS Integers, Sequences, FiniteSets, TLC

\* ------------------------------------------------------------------ bounds
MaxMsgs == 3          \* inbound messages of the multi-message runs
MaxAsks == 2          \* of them, messages that start an invocation
MaxOutOne == 6        \* stdout bytes of the worker when one message is handled
MaxOutMany == 2       \* stdout bytes of each worker when several are handled
MaxChunk == 2         \* bytes of one stdout 'data' event
MaxDeltasOne == 3     \* text deltas of the API stream when one message is handled
MaxDeltasMany == 1    \* text deltas of each API stream when several are handled
MaxTicks == 2         \* clock ticks of a run

\* ------------------------------------------------------- program constants
HistoryCap == 20      \* history.length > 20
EvictCount == 2       \* history.splice(0, 2)
MinInterval == 600    \* now - lastAt < 600
TrimMax == 3800       \* max = max || 3800
MarkerLen == 3        \* '...' and max - 3
TickMs == 300         \* granularity of the modelled clock
StartNow == 600       \* Date.now() at start: any value >= MinInterval

MaxNow == StartNow + MaxTicks * TickMs
Keys == {"k1", "k2"}
NoRef == 0            \* histories has no entry for the key
NL == "\n"

\* ------------------------------------------------------------- sequences
SeqsUpTo(S, n) == UNION {[1..k -> S] : k \in 0..n}

Suffix(s, n) == SubSeq(s, Len(s) - n + 1, Len(s))

\* ----------------------------------------------------------------- trim()
\* function trim(t, max): keep the suffix, prefixed with '...'
trim(t, max) ==
  IF Len(t) <= max THEN t ELSE <<".", ".", ".">> \o Suffix(t, max - MarkerLen)

\* ------------------------------------------------------- d.toString()
\* Buffer.toString() decodes each chunk on its own: "H" "L" are the two bytes
\* of one non-ASCII character "u"; a lone "H" or "L" decodes to U+FFFD ("?").
RECURSIVE toString(_)
toString(d) ==
  IF d = <<>> THEN <<>>
  ELSE IF Head(d) = "H"
       THEN IF Len(d) >= 2 /\ d[2] = "L"
            THEN <<"u">> \o toString(SubSeq(d, 3, Len(d)))
            ELSE <<"?">> \o toString(Tail(d))
       ELSE IF Head(d) = "L" THEN <<"?">> \o toString(Tail(d))
       ELSE <<Head(d)>> \o toString(Tail(d))

\* ------------------------------------------------------- buf.split('\n')
\* The segments between newlines: n newlines give n + 1 segments.
RECURSIVE split(_)
split(s) ==
  IF \A i \in 1..Len(s) : s[i] # NL THEN <<s>>
  ELSE LET i == CHOOSE j \in 1..Len(s) : s[j] = NL /\ \A k \in 1..(j-1) : s[k] # NL
       IN <<SubSeq(s, 1, i - 1)>> \o split(SubSeq(s, i + 1, Len(s)))

\* line.trim()
RECURSIVE lstrip(_)
lstrip(s) == IF s # <<>> /\ Head(s) = " " THEN lstrip(Tail(s)) ELSE s
RECURSIVE rstrip(_)
rstrip(s) ==
  IF s # <<>> /\ s[Len(s)] = " " THEN rstrip(SubSeq(s, 1, Len(s) - 1)) ELSE s
strip(s) == rstrip(lstrip(s))

\* ------------------------------------------------------------ JSON.parse
\* A line is a JSON text of a recognized shape when, whitespace around it
\* aside, it is one event letter followed by the characters of its string:
\*   T... {"type":"assistant","message":{"content":[{"type":"text","text":"..."}]}}
\*   S... {"type":"result","subtype":"success","result":"..."}
\*   E... {"type":"result","is_error":true,"result":"..."}
\*   O... any other JSON object, e.g. {"type":"system",...}: no branch is taken
\* Everything else makes JSON.parse throw a SyntaxError, or (the JSON text
\* null) the read of ev.type throw a TypeError.
EventLetters == {"T", "S", "E"}
StringChars == {"a", "b", "u", "?", " "}
JSONparse(line) ==
  LET t == strip(line)
  IN IF t # <<>> /\ Head(t) \in EventLetters \cup {"O"}
        /\ \A i \in 2..Len(t) : t[i] \in StringChars
     THEN [type |-> CASE Head(t) = "T" -> "assistant"
                      [] Head(t) = "S" -> "success"
                      [] Head(t) = "E" -> "error"
                      [] OTHER -> "other",
           text |-> Tail(t)]
     ELSE [type |-> "throw", text |-> <<>>]

\* ---------------------------------------------------------------- promises
Pending == [state |-> "pending", value |-> <<>>, settles |-> 0]

\* A settled promise ignores resolve() and reject().
rejectAlways(p, e) ==
  [state |-> "rejected", value |-> e, settles |-> p.settles + 1]
resolve(p, v) ==
  IF p.state = "pending"
  THEN [state |-> "resolved", value |-> v, settles |-> p.settles + 1] ELSE p
reject(p, e) ==
  IF p.state = "pending"
  THEN [state |-> "rejected", value |-> e, settles |-> p.settles + 1] ELSE p

\* ------------------------------------------------------------------- state
VARIABLES
  USE_SDK,      \* const USE_SDK: the deployment has an eligible API key
  histories,    \* const histories = new Map(): key -> array (a heap reference)
  heap,         \* the history arrays, by reference: arrays are shared objects
  ccSessions,   \* const ccSessions = new Set()
  h,            \* one record per message received so far, in the order of
                \* arrival: the locals of its handleMessage call
  now,          \* Date.now()
  env,          \* the run's environment: how many messages arrive and what
                \* the workers write
  bench         \* a framer or a decoder run on its own, outside any handler

vars == <<USE_SDK, histories, heap, ccSessions, h, now, env, bench>>

Handlers == DOMAIN h

Refs == 0..(MaxMsgs + Cardinality(Keys))

\* The parts of the state the handlers write.
World == [h |-> h, histories |-> histories, heap |-> heap, ccSessions |-> ccSessions]

Commit(w) ==
  /\ h' = w.h
  /\ histories' = w.histories
  /\ heap' = w.heap
  /\ ccSessions' = w.ccSessions

\* The locals of handleMessage(message) and of the askClaude / askSDK call it
\* makes, as the message arrives.
NewHandler(out, deltas) ==
  [pc |-> "new", key |-> "k1", quick |-> FALSE, reset |-> FALSE,
   history |-> NoRef, messages |-> <<>>, isContinue |-> FALSE,
   proc |-> "none", code |-> "", timer |-> "none", deadline |-> FALSE,
   stream |-> "none", outLeft |-> out, deltasLeft |-> deltas,
   buf |-> <<>>, acc |-> <<>>, onChunk |-> <<>>, results |-> 0,
   promise |-> Pending, first |-> <<>>,
   lastText |-> <<>>, lastAt |-> 0,
   updates |-> <<>>, reactions |-> <<>>]

\* ---------------------------------------------------------- liveUpdate(t)
\* l: the handler record; the update goes to the message's posted display.
liveUpdate(l, t, clock) ==
  LET tt == trim(t, TrimMax)
  IN IF tt = l.lastText THEN l
     ELSE IF clock - l.lastAt < MinInterval
          THEN [l EXCEPT !.lastText = tt]
          ELSE [l EXCEPT !.lastText = tt, !.lastAt = clock,
                         !.updates = Append(@, [kind |-> "live", text |-> tt])]

\* (an accumulator that assigns instead of appending: acc = text)
appendTextAssign(l, text, clock) ==
  liveUpdate([l EXCEPT !.acc = text, !.onChunk = Append(@, text)], text, clock)

\* acc += text; onChunk(acc)
appendText(l, text, clock) ==
  LET a == l.acc \o text
  IN liveUpdate([l EXCEPT !.acc = a, !.onChunk = Append(@, a)], a, clock)

\* resolve(...) and reject(...) of the promise askClaude / askSDK returns;
\* first remembers the first call made, whatever the promise does with it.
noteFirst(l, st, v) ==
  IF l.first = <<>> THEN [l EXCEPT !.first = <<[state |-> st, value |-> v]>>] ELSE l
doResolve(l, v) == [noteFirst(l, "resolved", v) EXCEPT !.promise = resolve(@, v)]
doReject(l, e) == [noteFirst(l, "rejected", e) EXCEPT !.promise = reject(@, e)]

\* ------------------------------------------- proc.stdout.on('data') loop body
\* (a loop body whose JSON.parse is outside the try: the exception ends the
\* invocation)
onLineNoCatch(l, line, clock) ==
  IF strip(line) = <<>> THEN l
  ELSE LET ev == JSONparse(line)
       IN CASE ev.type = "assistant" ->
                 IF ev.text # <<>> THEN appendText(l, ev.text, clock) ELSE l
            [] ev.type = "success" ->
                 doResolve([l EXCEPT !.results = @ + 1],
                           IF ev.text # <<>> THEN ev.text ELSE l.acc)
            [] ev.type = "error" ->
                 doReject([l EXCEPT !.results = @ + 1],
                          IF ev.text # <<>> THEN ev.text ELSE <<"Claude error">>)
            [] ev.type = "throw" -> doReject(l, <<"SyntaxError">>)
            [] OTHER -> l

onLine(l, line, clock) ==
  IF strip(line) = <<>> THEN l                               \* continue
  ELSE LET ev == JSONparse(line)
       IN CASE ev.type = "assistant" ->
                 IF ev.text # <<>> THEN appendText(l, ev.text, clock) ELSE l
            [] ev.type = "success" ->
                 doResolve([l EXCEPT !.results = @ + 1],
                           IF ev.text # <<>> THEN ev.text ELSE l.acc)
            [] ev.type = "error" ->
                 doReject([l EXCEPT !.results = @ + 1],
                          IF ev.text # <<>> THEN ev.text ELSE <<"Claude error">>)
            [] ev.type = "throw" -> l                        \* catch {}
            [] OTHER -> l

RECURSIVE onLines(_, _, _)
onLines(l, lines, clock) ==
  IF lines = <<>> THEN l
  ELSE onLines(onLine(l, Head(lines), clock), Tail(lines), clock)

\* buf += d.toString(); const lines = buf.split('\n'); buf = lines.pop()
frame(buf, d) ==
  LET segs == split(buf \o toString(d))
  IN [lines |-> SubSeq(segs, 1, Len(segs) - 1), buf |-> segs[Len(segs)]]

\* proc.stdout.on('data', function(d) {...})
onData(l, d, clock) ==
  LET f == frame(l.buf, d)
  IN onLines([l EXCEPT !.buf = f.buf, !.outLeft = @ - Len(d)], f.lines, clock)

\* clearTimeout(timer)
clearTimeout(l) == IF l.timer = "armed" THEN [l EXCEPT !.timer = "cleared"] ELSE l

\* (a close handler that rejects when text was produced: the negation dropped)
onCloseTextOnly(l, code) ==
  LET c == [clearTimeout(l) EXCEPT !.proc = "closed", !.code = code]
  IN IF code # "0" /\ c.acc # <<>> THEN doReject(c, <<"exit ", code>>) ELSE c

\* proc.on('close', function(code) {...})
onClose(l, code) ==
  LET c == [clearTimeout(l) EXCEPT !.proc = "closed", !.code = code]
  IN IF code # "0" /\ c.acc = <<>> THEN doReject(c, <<"exit ", code>>) ELSE c

\* proc.on('error', function(err) {...})
onError(l, err) == doReject([clearTimeout(l) EXCEPT !.proc = "errored"], err)

\* (a kill that sends nothing)
killNothing(l) == l
\* proc.kill('SIGKILL')
kill(l) == IF l.proc = "running" THEN [l EXCEPT !.proc = "killed"] ELSE l

\* setTimeout(function() {...}, 5*60*1000) callback
onTimeout(l) == doReject([kill(l) EXCEPT !.timer = "fired"], <<"Timeout 5min">>)

\* ------------------------------------------------ handleMessage after await
\* (an eviction that removes one entry instead of the pair)
pushTurnEvictOne(hist, m, result) ==
  LET p == hist \o <<[role |-> "user", content |-> <<"text", m>>],
                     [role |-> "assistant", content |-> <<"result", m>> \o result]>>
  IN IF Len(p) > HistoryCap THEN SubSeq(p, 2, Len(p)) ELSE p

\* history.push(user, assistant); if (history.length > 20) history.splice(0, 2)
pushTurn(hist, m, result) ==
  LET p == hist \o <<[role |-> "user", content |-> <<"text", m>>],
                     [role |-> "assistant", content |-> <<"result", m>> \o result]>>
  IN IF Len(p) > HistoryCap THEN SubSeq(p, EvictCount + 1, Len(p)) ELSE p

finalText(l, result) ==
  [kind |-> "final",
   text |-> trim(result, TrimMax) \o <<IF l.quick THEN "_quick_" ELSE "_cc_">>]

errorText(msg) == [kind |-> "error", text |-> <<"Error: ">> \o msg]

\* ccSessions.add(sessionKey) after a full-mode invocation resolved
markContinuable(set, key) == set \cup {key}

\* (a handler that marks the key continuable in a finally block)
afterAskMarkAlways(w, m) ==
  LET l == w.h[m]
  IN IF l.pc # "ask" \/ l.promise.state = "pending" THEN w
     ELSE IF l.promise.state = "rejected"
     THEN [w EXCEPT !.ccSessions = IF l.quick THEN @ ELSE @ \cup {l.key},
                    !.h[m].pc = "errUpdate",
                    !.h[m].updates = Append(@, [kind |-> "error",
                                                text |-> <<"Error: ">> \o l.promise.value])]
     ELSE IF l.quick
     THEN [w EXCEPT !.heap[l.history] = @ \o
                        <<[role |-> "user", content |-> <<"text", m>>],
                          [role |-> "assistant",
                           content |-> <<"result", m>> \o l.promise.value]>>,
                    !.histories[l.key] = l.history,
                    !.h[m].pc = "update",
                    !.h[m].updates = Append(@, [kind |-> "final", text |-> l.promise.value])]
     ELSE [w EXCEPT !.ccSessions = @ \cup {l.key},
                    !.h[m].pc = "update",
                    !.h[m].updates = Append(@, [kind |-> "final", text |-> l.promise.value])]

\* (a handler without the try/catch around the invocation)
afterAskNoCatch(w, m) ==
  LET l == w.h[m]
  IN IF l.pc # "ask" \/ l.promise.state = "pending" THEN w
     ELSE IF l.promise.state = "rejected" THEN [w EXCEPT !.h[m].pc = "unhandled"]
     ELSE IF l.quick
     THEN [w EXCEPT !.histories[l.key] = l.history, !.h[m].pc = "update",
                    !.h[m].updates = Append(@, [kind |-> "final", text |-> l.promise.value])]
     ELSE [w EXCEPT !.ccSessions = @ \cup {l.key}, !.h[m].pc = "update",
                    !.h[m].updates = Append(@, [kind |-> "final", text |-> l.promise.value])]
\* The continuation of `await askSDK(...)` / `await askClaude(...)`: it runs
\* as a microtask of the task that settled the promise, up to the next await.
afterAsk(w, m) ==
  LET l == w.h[m]
  IN IF l.pc # "ask" \/ l.promise.state = "pending" THEN w
     ELSE IF l.promise.state = "rejected"
     THEN [w EXCEPT !.h[m].pc = "errUpdate",
                    !.h[m].updates = Append(@, errorText(l.promise.value))]
     ELSE IF l.quick
     THEN [w EXCEPT !.heap[l.history] = pushTurn(@, m, l.promise.value),
                    !.histories[l.key] = l.history,
                    !.h[m].pc = "update",
                    !.h[m].updates = Append(@, finalText(l, l.promise.value))]
     ELSE [w EXCEPT !.ccSessions = markContinuable(@, l.key),
                    !.h[m].pc = "update",
                    !.h[m].updates = Append(@, finalText(l, l.promise.value))]

\* One event of message m's invocation: `step` is the handler's effect on
\* the handler record; the awaiting handleMessage then continues.
Event(m, step) == Commit(afterAsk([World EXCEPT !.h[m] = step], m))

\* ------------------------------------------------------------------ inputs
\* What a worker writes to stdout in one 'data' event: any bytes, or (a
\* worker that keeps to the protocol and flushes per record) one whole line.
Bytes == {NL, "T", "S", "E", "a"}
Lines == {<<"T", "a", NL>>, <<"S", NL>>, <<"E", NL>>}
Chunks(writes) ==
  IF writes = "bytes" THEN SeqsUpTo(Bytes, MaxChunk) \ {<<>>} ELSE Lines
\* the text of one text_delta event: any string, the empty one included
Deltas == {<<>>, <<"a">>}
ExitCodes == {"0", "7"}
\* message.text after trim(), as words
Texts == {<<>>, <<"w">>, <<"reset">>, <<"w", "reset">>,
          <<"quick:">>, <<"quick:", "w">>, <<"quick:", "reset">>}
ChannelTypes == {"im", "channel"}
Users == {"allowed", "other"}
Subtypes == {"none", "bot_message"}

\* /^quick:\s*/i.test(rawText) and rawText.replace(/^quick:\s*/i, '')
hasQuickPrefix(rawText) == rawText # <<>> /\ Head(rawText) = "quick:"
stripQuickPrefix(rawText) == IF hasQuickPrefix(rawText) THEN Tail(rawText) ELSE rawText
\* /^reset\b/i.test(text)
isReset(text) == text # <<>> /\ Head(text) = "reset"

\* ----------------------------------------------------------------- actions
\* (a reset that clears the session state of every key)
handleStartClearAll(w, m, message, useSdk) ==
  IF message.channel_type # "im" \/ message.user # "allowed"
     \/ message.subtype # "none" \/ message.text = <<>>
  THEN [w EXCEPT !.h[m].pc = "ignored"]
  ELSE LET sessionKey == message.channel
           isQuickMode == useSdk /\ hasQuickPrefix(message.text)
           text == IF isQuickMode THEN stripQuickPrefix(message.text) ELSE message.text
       IN IF isReset(text)
          THEN [w EXCEPT !.histories = [k \in Keys |-> NoRef],
                         !.ccSessions = {},
                         !.h[m].key = sessionKey,
                         !.h[m].reset = TRUE,
                         !.h[m].pc = "resetPost"]
          ELSE [w EXCEPT !.h[m].key = sessionKey,
                         !.h[m].quick = isQuickMode,
                         !.h[m].pc = "post"]

\* handleMessage(message, client) up to its first await
handleStart(w, m, message, useSdk) ==
  IF message.channel_type # "im" \/ message.user # "allowed"
     \/ message.subtype # "none" \/ message.text = <<>>
  THEN [w EXCEPT !.h[m].pc = "ignored"]
  ELSE LET sessionKey == message.channel
           isQuickMode == useSdk /\ hasQuickPrefix(message.text)
           text == IF isQuickMode THEN stripQuickPrefix(message.text) ELSE message.text
       IN IF isReset(text)
          THEN [w EXCEPT !.histories[sessionKey] = NoRef,
                         !.ccSessions = @ \ {sessionKey},
                         !.h[m].key = sessionKey,
                         !.h[m].reset = TRUE,
                         !.h[m].pc = "resetPost"]
          ELSE [w EXCEPT !.h[m].key = sessionKey,
                         !.h[m].quick = isQuickMode,
                         !.h[m].pc = "post"]

\* The messages that went on to post a placeholder and start an invocation.
Asking(hh) == {m \in DOMAIN hh : hh[m].pc # "ignored" /\ ~hh[m].reset}

\* app.message: a message arrives and handleMessage runs up to its first
\* await; at most env.asks of the messages start an invocation.
Receive ==
  /\ Len(h) < env.msgs
  /\ \E ct \in ChannelTypes, u \in Users, st \in Subtypes, t \in Texts,
        k \in IF h = <<>> THEN {"k1"} ELSE Keys :   \* keys are interchangeable
       LET arrived == [World EXCEPT !.h = Append(h, NewHandler(env.out, env.deltas))]
           w == handleStart(arrived, Len(h) + 1,
                  [channel_type |-> ct, user |-> u, subtype |-> st,
                   text |-> t, channel |-> k], USE_SDK)
       IN /\ Cardinality(Asking(w.h)) <= env.asks
          /\ Commit(w)
  /\ UNCHANGED <<USE_SDK, now, env, bench>>

\* await client.chat.postMessage({... text: 'Reset.'})
ResetPostDone(m) ==
  /\ h[m].pc = "resetPost"
  /\ \E ok \in BOOLEAN :
       h' = [h EXCEPT ![m].pc = IF ok THEN "done" ELSE "unhandled"]
  /\ UNCHANGED <<USE_SDK, histories, heap, ccSessions, now, env, bench>>

\* (a fast path that falls through to the full path: the else is missing)
startSDKFallThrough(w, m) ==
  LET l == w.h[m]
      ref == IF w.histories[l.key] # NoRef THEN w.histories[l.key] ELSE m
  IN [w EXCEPT !.h[m].history = ref,
               !.h[m].messages = w.heap[ref] \o <<[role |-> "user", content |-> <<"text", m>>]>>,
               !.h[m].stream = "open",
               !.h[m].proc = "running",
               !.h[m].timer = "armed",
               !.h[m].pc = "ask"]

\* (an askSDK that pushes the user turn onto the caller's array)
startSDKPush(w, m) ==
  LET l == w.h[m]
      ref == IF w.histories[l.key] # NoRef THEN w.histories[l.key] ELSE m
      pushed == w.heap[ref] \o <<[role |-> "user", content |-> <<"text", m>>]>>
  IN [w EXCEPT !.heap[ref] = pushed,
               !.h[m].history = ref,
               !.h[m].messages = pushed,
               !.h[m].stream = "open",
               !.h[m].pc = "ask"]

\* const history = histories.get(sessionKey) || []; askSDK(text, history, liveUpdate)
startSDK(w, m) ==
  LET l == w.h[m]
      ref == IF w.histories[l.key] # NoRef THEN w.histories[l.key] ELSE m
  IN [w EXCEPT !.h[m].history = ref,
               !.h[m].messages = w.heap[ref] \o <<[role |-> "user", content |-> <<"text", m>>]>>,
               !.h[m].stream = "open",
               !.h[m].pc = "ask"]

\* const isContinue = ccSessions.has(sessionKey); askClaude(text, isContinue, ...)
startClaude(w, m, spawned) ==
  [w EXCEPT !.h[m].isContinue = w.h[m].key \in w.ccSessions,
            !.h[m].proc = IF spawned THEN "running" ELSE "spawnfail",
            !.h[m].timer = "armed",
            !.h[m].pc = "ask"]

\* the placeholder postMessage settles; the handler runs up to the await of
\* askSDK / askClaude
PostDone(m) ==
  /\ h[m].pc = "post"
  /\ \E posted \in BOOLEAN, spawned \in BOOLEAN :
       Commit(IF ~posted THEN [World EXCEPT !.h[m].pc = "done"]
              ELSE IF h[m].quick THEN startSDK(World, m)
              ELSE startClaude(World, m, spawned))
  /\ UNCHANGED <<USE_SDK, now, env, bench>>

\* proc.stdout 'data': also what the pipe still holds after a SIGKILL
Data(m) ==
  /\ h[m].proc \in {"running", "killed"}
  /\ \E d \in Chunks(env.writes) :
       /\ Len(d) <= h[m].outLeft
       /\ Event(m, onData(h[m], d, now))
  /\ UNCHANGED <<USE_SDK, now, env, bench>>

\* proc 'close': after the process ended and its pipes closed
Close(m) ==
  /\ h[m].proc \in {"running", "killed", "errored"}
  /\ \E code \in ExitCodes \cup {"null", "-2"} :
       /\ h[m].proc = "running" => code \in ExitCodes
       /\ h[m].proc = "killed" => code = "null"
       /\ h[m].proc = "errored" => code = "-2"
       /\ Event(m, onClose(h[m], code))
  /\ UNCHANGED <<USE_SDK, now, env, bench>>

\* proc 'error': the spawn failed
SpawnError(m) ==
  /\ h[m].proc = "spawnfail"
  /\ Event(m, onError(h[m], <<"spawn ENOENT">>))
  /\ UNCHANGED <<USE_SDK, now, env, bench>>

\* The wall clock reaches t0 + 5 min: the timer callback runs unless the
\* timer was cleared. (With the timer cleared and no process alive the
\* passing of the deadline is not observable, and is left out.)
Deadline(m) ==
  /\ h[m].timer = "armed" \/ (h[m].timer = "cleared" /\ h[m].proc = "running")
  /\ h[m].proc # "spawnfail"
  /\ ~h[m].deadline
  /\ Event(m, IF h[m].timer = "armed"
              THEN [onTimeout(h[m]) EXCEPT !.deadline = TRUE]
              ELSE [h[m] EXCEPT !.deadline = TRUE])
  /\ UNCHANGED <<USE_SDK, now, env, bench>>

\* stream.on('text', (t) => { acc += t; onChunk(acc); })
SdkText(m) ==
  /\ h[m].stream = "open"
  /\ h[m].deltasLeft > 0
  /\ \E t \in Deltas :
       Event(m, appendText([h[m] EXCEPT !.deltasLeft = @ - 1], t, now))
  /\ UNCHANGED <<USE_SDK, now, env, bench>>

\* await stream.finalMessage() resolves: return { result: acc, cost }
SdkFinal(m) ==
  /\ h[m].stream = "open"
  /\ Event(m, doResolve([h[m] EXCEPT !.stream = "ended"], h[m].acc))
  /\ UNCHANGED <<USE_SDK, now, env, bench>>

\* the API call errors or is rejected upstream
SdkError(m) ==
  /\ h[m].stream = "open"
  /\ Event(m, doReject([h[m] EXCEPT !.stream = "failed"], <<"API error">>))
  /\ UNCHANGED <<USE_SDK, now, env, bench>>

\* await client.chat.update({... text: trim(result) + meta }) settles
UpdateDone(m) ==
  /\ h[m].pc = "update"
  /\ \E ok \in BOOLEAN :
       h' = IF ok
            THEN [h EXCEPT ![m].pc = "react",
                           ![m].reactions = Append(@, "white_check_mark")]
            ELSE [h EXCEPT ![m].pc = "errUpdate",
                           ![m].updates = Append(@, errorText(<<"update failed">>))]
  /\ UNCHANGED <<USE_SDK, histories, heap, ccSessions, now, env, bench>>

\* await client.chat.update({... text: 'Error: ' + err.message }).catch(...)
ErrUpdateDone(m) ==
  /\ h[m].pc = "errUpdate"
  /\ h' = [h EXCEPT ![m].pc = "errReact", ![m].reactions = Append(@, "x")]
  /\ UNCHANGED <<USE_SDK, histories, heap, ccSessions, now, env, bench>>

\* await client.reactions.add(...).catch(...) settles, either way
ReactDone(m) ==
  /\ h[m].pc \in {"react", "errReact"}
  /\ h' = [h EXCEPT ![m].pc = "done"]
  /\ UNCHANGED <<USE_SDK, histories, heap, ccSessions, now, env, bench>>

\* Time passes; only liveUpdate reads the clock, so it is let run while an
\* invocation can still call it.
Tick ==
  /\ now < MaxNow
  /\ \E m \in Handlers : h[m].proc \in {"running", "killed"} \/ h[m].stream = "open"
  /\ now' = now + TickMs
  /\ UNCHANGED <<USE_SDK, histories, heap, ccSessions, h, env, bench>>

Next ==
  \/ Receive
  \/ \E m \in Handlers : ResetPostDone(m)
  \/ \E m \in Handlers : PostDone(m)
  \/ \E m \in Handlers : Data(m)
  \/ \E m \in Handlers : Close(m)
  \/ \E m \in Handlers : SpawnError(m)
  \/ \E m \in Handlers : Deadline(m)
  \/ \E m \in Handlers : SdkText(m)
  \/ \E m \in Handlers : SdkFinal(m)
  \/ \E m \in Handlers : SdkError(m)
  \/ \E m \in Handlers : UpdateDone(m)
  \/ \E m \in Handlers : ErrUpdateDone(m)
  \/ \E m \in Handlers : ReactDone(m)

\* The same, with time passing between the events.
NextTimed ==
  \/ Next
  \/ Tick

\* The state after the module is loaded: empty session state.
InitStore ==
  /\ histories = [k \in Keys |-> NoRef]
  /\ heap = [r \in Refs |-> <<>>]
  /\ ccSessions = {}

\* Several messages arrive at a deployment with the fast path; each worker
\* writes little.
Init ==
  /\ InitStore
  /\ USE_SDK = TRUE
  /\ now = StartNow
  /\ h = <<>>
  /\ env = [msgs |-> MaxMsgs, asks |-> MaxAsks, writes |-> "lines", out |-> MaxOutMany,
            deltas |-> MaxDeltasMany]
  /\ bench = <<>>

\* One message arrives; its worker writes up to MaxOutOne bytes.
InitOne ==
  /\ InitStore
  /\ USE_SDK \in BOOLEAN
  /\ now = StartNow
  /\ h = <<>>
  /\ env = [msgs |-> 1, asks |-> 1, writes |-> "bytes", out |-> MaxOutOne,
            deltas |-> MaxDeltasOne]
  /\ bench = <<>>

\* Nine turns of an earlier fast-mode conversation.
RECURSIVE OldTurns(_)
OldTurns(n) ==
  IF n = 0 THEN <<>>
  ELSE OldTurns(n - 1) \o <<[role |-> "user", content |-> <<"text", 0 - n>>],
                            [role |-> "assistant", content |-> <<"result", 0 - n>>]>>

\* As Init, with the history of k1 one turn below the cap.
InitCap ==
  /\ histories = [k \in Keys |-> IF k = "k1" THEN MaxMsgs + 1 ELSE NoRef]
  /\ heap = [r \in Refs |-> IF r = MaxMsgs + 1
                             THEN OldTurns((HistoryCap \div EvictCount) - 1) ELSE <<>>]
  /\ ccSessions = {}
  /\ USE_SDK = TRUE
  /\ now = StartNow
  /\ h = <<>>
  /\ env = [msgs |-> MaxMsgs, asks |-> MaxAsks, writes |-> "lines", out |-> MaxOutMany,
            deltas |-> MaxDeltasMany]
  /\ bench = <<>>

\* ------------------------------------------- the framer and the decoder alone
MaxLines == 3         \* stdout lines the decoder is fed
MaxContent == 4       \* bytes of the stdout content the framer is fed

\* Stdout lines: blank, whitespace, not JSON, JSON of another shape, and the
\* three events, with and without text and with whitespace around them.
LineInputs ==
  {<<>>, <<" ">>, <<"a">>, <<"a", "T">>, <<"T", "S">>, <<"O">>, <<"O", "a">>,
   <<"T">>, <<"T", "a">>, <<" ", "T", "b">>, <<"S">>, <<"S", "a", " ">>, <<"E">>}

\* An askClaude call that has spawned its worker.
Spawned == [NewHandler(0, 0) EXCEPT !.pc = "ask", !.proc = "running", !.timer = "armed"]

InitDecode ==
  /\ InitStore
  /\ USE_SDK = FALSE
  /\ now = StartNow
  /\ h = <<>>
  /\ env = [msgs |-> 0, asks |-> 0, writes |-> "lines", out |-> 0, deltas |-> 0]
  /\ bench = [dec |-> Spawned, lines |-> <<>>]

\* One 'data' event whose chunk ends on a newline and holds one or two lines:
\* the for loop over them.
DecodeLines ==
  /\ \E ls \in SeqsUpTo(LineInputs, 2) \ {<<>>} :
       /\ Len(bench.lines) + Len(ls) <= MaxLines
       /\ bench' = [dec |-> onLines(bench.dec, ls, now), lines |-> bench.lines \o ls]
  /\ UNCHANGED <<USE_SDK, histories, heap, ccSessions, h, now, env>>

\* Stdout content is UTF-8: "H" "L" are the bytes of one character.
FrameBytes == {NL, "a", "H", "L"}
RECURSIVE Utf8(_)
Utf8(c) ==
  IF c = <<>> THEN TRUE
  ELSE IF Head(c) = "H" THEN Len(c) >= 2 /\ c[2] = "L" /\ Utf8(SubSeq(c, 3, Len(c)))
  ELSE Head(c) # "L" /\ Utf8(Tail(c))

InitFrame ==
  /\ InitStore
  /\ USE_SDK = FALSE
  /\ now = StartNow
  /\ h = <<>>
  /\ env = [msgs |-> 0, asks |-> 0, writes |-> "bytes", out |-> 0, deltas |-> 0]
  /\ \E c \in SeqsUpTo(FrameBytes, MaxContent) :
       /\ Utf8(c)
       /\ bench = [content |-> c, rest |-> c, buf |-> <<>>, lines |-> <<>>]

\* One 'data' event: the pipe delivers the next bytes, cut anywhere.
FrameChunk ==
  /\ \E n \in 1..Len(bench.rest) :
       LET f == frame(bench.buf, SubSeq(bench.rest, 1, n))
       IN bench' = [bench EXCEPT !.rest = SubSeq(@, n + 1, Len(@)),
                                 !.buf = f.buf,
                                 !.lines = @ \o f.lines]
  /\ UNCHANGED <<USE_SDK, histories, heap, ccSessions, h, now, env>>

SpecDecode == InitDecode /\ [][DecodeLines]_vars
SpecFrame == InitFrame /\ [][FrameChunk]_vars

\* Spec, SpecCap: the messages of a run are handled within one tick of the
\* clock. SpecOne: one message, with time passing.
Spec == Init /\ [][Next]_vars
SpecCap == InitCap /\ [][Next]_vars
SpecOne == InitOne /\ [][NextTimed]_vars

\* ------------------------------------------------------------------ claims
Settled(m) == h[m].promise.state # "pending"
Outcome(m) == [state |-> h[m].promise.state, value |-> h[m].promise.value]
Timeout == [state |-> "rejected", value |-> <<"Timeout 5min">>]

\* C1: the promise of an invocation settles at most once, and its outcome is
\* that of the first event that called resolve() or reject(); events after it
\* leave the outcome as it is.
C1_ExactlyOneResolution ==
  \A m \in Handlers :
    /\ h[m].promise.settles <= 1
    /\ Settled(m) <=> h[m].first # <<>>
    /\ Settled(m) => h[m].first = <<Outcome(m)>>

\* C1 witness: the timer fired after a result-success event had resolved.
C1_Witness ==
  \E m \in Handlers :
    /\ h[m].promise.state = "resolved"
    /\ h[m].results > 0
    /\ h[m].timer = "fired"

\* C2: a close with a non-zero exit code, no result event decoded and
\* non-empty accumulated text resolves the invocation with that text.
C2_SoftSuccess ==
  \A m \in Handlers :
    (h[m].proc = "closed" /\ h[m].code = "7" /\ h[m].results = 0 /\ h[m].acc # <<>>)
      => (h[m].promise.state = "resolved" /\ h[m].promise.value = h[m].acc)

\* C3: once the worker has closed, nothing more can happen for the
\* invocation, so by then it has reached a terminal outcome and the handler
\* has issued its final text or its error.
C3_TerminalOutcome ==
  \A m \in Handlers :
    h[m].proc = "closed"
      => /\ Settled(m)
         /\ \E i \in 1..Len(h[m].updates) : h[m].updates[i].kind \in {"final", "error"}

\* C4: when the deadline passes with the promise still pending the worker is
\* killed and the invocation rejects with the timeout error; and after its
\* deadline no worker is still running, whatever settled the invocation.
C4_Step ==
  \A m \in Handlers :
    (~h[m].deadline /\ h'[m].deadline /\ ~Settled(m))
      => /\ h'[m].promise.state = "rejected"
         /\ h'[m].promise.value = <<"Timeout 5min">>
         /\ h[m].proc = "running" => h'[m].proc = "killed"
C4_TimeoutKills ==
  /\ [](\A m \in Handlers : h[m].deadline => h[m].proc # "running")
  /\ [][C4_Step]_vars

\* C4 witness: the invocation resolved from a result event, and the deadline
\* then killed the worker that was still running.
C4_Witness ==
  \E m \in Handlers :
    /\ h[m].deadline
    /\ h[m].promise.state = "resolved"
    /\ h[m].proc = "killed"

\* C5: a close with a non-zero exit code, no text and no result event
\* rejects with 'exit <code>'; the handler reports the error and leaves the
\* continuable keys and the histories as they were.
C5_Step ==
  \A m \in Handlers :
    (/\ h[m].proc = "running" /\ h'[m].proc = "closed"
     /\ h'[m].code # "0" /\ h[m].acc = <<>> /\ h[m].results = 0)
      => /\ h'[m].promise.state = "rejected"
         /\ h'[m].promise.value = <<"exit ", h'[m].code>>
         /\ h'[m].pc = "errUpdate"
         /\ ccSessions' = ccSessions
         /\ histories' = histories
         /\ heap' = heap
C5_ExitCodeFailure == [][C5_Step]_vars

\* C5 witness: the worker exited with code 7 having written no text and no
\* result, and the handler is reporting 'exit 7'.
C5_Witness ==
  \E m \in Handlers :
    /\ h[m].proc = "closed" /\ h[m].code = "7"
    /\ h[m].acc = <<>> /\ h[m].results = 0
    /\ h[m].promise.value = <<"exit ", "7">>
    /\ Len(h[m].updates) > 0
    /\ h[m].updates[Len(h[m].updates)] = errorText(<<"exit ", "7">>)

\* The invocation of message m has started; its awaiting handler has continued.
Invoked(m) == h[m].proc # "none" \/ h[m].stream # "none"
Completed(m) == Invoked(m) /\ h[m].pc # "ask"
\* The last reset handled for key k (messages are numbered as they arrive).
LastReset(k) ==
  LET R == {m \in Handlers : h[m].reset /\ h[m].key = k}
  IN IF R = {} THEN 0 ELSE CHOOSE m \in R : \A x \in R : x <= m
Stored(k) == IF histories[k] = NoRef THEN <<>> ELSE heap[histories[k]]

\* C6: after a reset for k, and until a message for k that arrived after it
\* completes, k is not continuable, the history stored for k is empty, and a
\* full-mode message for k is invoked without the continuation flag.
C6_ResetIsolates ==
  \A k \in Keys :
    LET r == LastReset(k)
    IN (/\ r > 0
        /\ \A m \in Handlers : (m > r /\ h[m].key = k) => ~Completed(m))
         => /\ k \notin ccSessions
            /\ Stored(k) = <<>>
            /\ \A m \in Handlers :
                 (m > r /\ h[m].key = k /\ Invoked(m) /\ ~h[m].quick) => ~h[m].isContinue

\* C7: an invocation is started with --continue only when a full-mode
\* invocation for its key has resolved; a key becomes continuable only in
\* the step in which a full-mode invocation for it resolves, a reset leaves
\* it not continuable, and a failing invocation changes no key.
C7_Step ==
  /\ \A k \in Keys :
       (k \in ccSessions' /\ k \notin ccSessions)
         => \E m \in Handlers : /\ h[m].key = k /\ ~h[m].quick
                            /\ h[m].pc = "ask" /\ h'[m].pc = "update"
                            /\ h'[m].promise.state = "resolved"
  /\ \A m \in Handlers :
       /\ (h[m].pc = "post" /\ h'[m].pc = "ask" /\ ~h[m].quick)
            => (h'[m].isContinue <=> h[m].key \in ccSessions)
       /\ (h[m].pc = "ask" /\ h'[m].promise.state = "rejected")
            => ccSessions' = ccSessions
  /\ (Len(h') > Len(h) /\ h'[Len(h')].reset) => h'[Len(h')].key \notin ccSessions'
C7_ContinueOnlyAfterSuccess ==
  /\ [](\A m \in Handlers :
          h[m].isContinue
            => \E n \in Handlers \ {m} : /\ h[n].key = h[m].key /\ ~h[n].quick
                                     /\ h[n].promise.state = "resolved"
                                     /\ Completed(n))
  /\ [][C7_Step]_vars

\* C7 witness: an invocation was started with --continue and failed; its key
\* is still continuable from the earlier success only.
C7_Witness ==
  \E m \in Handlers :
    /\ h[m].isContinue
    /\ h[m].promise.state = "rejected"
    /\ Completed(m)

\* C8: the stored history of a key has at most 20 entries, an even number of
\* them, alternating user, assistant; a completed turn appends its pair and,
\* when that exceeds 20, removes exactly the oldest pair, keeping the order.
Paired(s) ==
  /\ Len(s) <= HistoryCap
  /\ Len(s) % 2 = 0
  /\ \A i \in 1..Len(s) : s[i].role = IF i % 2 = 1 THEN "user" ELSE "assistant"
C8_Step ==
  \A m \in Handlers :
    (h[m].pc = "ask" /\ h'[m].pc = "update" /\ h[m].quick)
      => LET old == heap[h[m].history]
             new == heap'[h[m].history]
             kept == IF Len(old) + 2 > HistoryCap THEN SubSeq(old, 3, Len(old)) ELSE old
         IN /\ Len(new) = Len(kept) + 2
            /\ SubSeq(new, 1, Len(kept)) = kept
            /\ new[Len(new) - 1] = [role |-> "user", content |-> <<"text", m>>]
            /\ new[Len(new)].role = "assistant"
            /\ histories'[h[m].key] = h[m].history
C8_HistoryBounded ==
  /\ [](\A k \in Keys : Paired(Stored(k)))
  /\ [][C8_Step]_vars

\* C8 witness: two turns completed on the same array, which was one turn
\* below the cap; the oldest pair is gone and 20 entries are stored.
C8_Witness ==
  \E k \in Keys :
    /\ Len(Stored(k)) = HistoryCap
    /\ Stored(k)[1].content # Head(OldTurns(1)).content
    /\ \E m \in Handlers : Stored(k)[HistoryCap - 1].content = <<"text", m>>

\* C9: no live update of a message is issued after its final flush (the
\* final text or the 'Error: ...' text).
C9_FinalFlushLast ==
  \A m \in Handlers :
    \A i, j \in 1..Len(h[m].updates) :
      (i < j /\ h[m].updates[i].kind \in {"final", "error"})
        => h[m].updates[j].kind # "live"

\* C10: a failed invocation is caught by the handler: exactly one
\* 'Error: <message>' update, then the failure reaction; the handler's
\* promise does not reject, and the failing step leaves the continuable keys
\* and the histories as they were.
NumKind(m, kind) ==
  Cardinality({i \in 1..Len(h[m].updates) : h[m].updates[i].kind = kind})
C10_Step ==
  \A m \in Handlers :
    (h[m].pc = "ask" /\ h'[m].promise.state = "rejected")
      => /\ h'[m].pc = "errUpdate"
         /\ h'[m].updates[Len(h'[m].updates)] = errorText(h'[m].promise.value)
         /\ ccSessions' = ccSessions
         /\ histories' = histories
         /\ heap' = heap
C10_FailureReported ==
  /\ [](\A m \in Handlers :
          (h[m].promise.state = "rejected" /\ Invoked(m))
            => /\ h[m].pc \in {"errUpdate", "errReact", "done"}
               /\ NumKind(m, "error") = 1
               /\ NumKind(m, "final") = 0
               /\ h[m].reactions = IF h[m].pc = "errUpdate" THEN <<>> ELSE <<"x">>)
  /\ [][C10_Step]_vars

\* C10 witness: a fast-mode invocation failed with an API error; the handler
\* reported it and returned.
C10_Witness ==
  \E m \in Handlers :
    /\ h[m].promise = [state |-> "rejected", value |-> <<"API error">>, settles |-> 1]
    /\ h[m].pc = "done"
    /\ h[m].reactions = <<"x">>


\* C11: display calls are best-effort: a message whose invocation resolved
\* is never reported as failed (no 'Error:' update, no failure reaction),
\* whatever the display calls after it do.
C11_BestEffortDisplay ==
  \A m \in Handlers :
    h[m].promise.state = "resolved"
      => /\ NumKind(m, "error") = 0
         /\ \A i \in 1..Len(h[m].reactions) : h[m].reactions[i] # "x"


\* The lines of a stream the decoder acts on: neither blank, nor unparsable,
\* nor of an unrecognized shape.
Recognized(line) ==
  /\ strip(line) # <<>>
  /\ JSONparse(line).type \in {"assistant", "success", "error"}

\* C12: whatever lines the worker wrote, the accumulated text, the
\* snapshots passed to onChunk and the outcome are those of the same stream
\* without its blank, unparsable and unrecognized lines.
C12_LossyTolerant ==
  LET ref == onLines(Spawned, SelectSeq(bench.lines, Recognized), now)
  IN /\ bench.dec.acc = ref.acc
     /\ bench.dec.onChunk = ref.onChunk
     /\ bench.dec.promise = ref.promise
     /\ bench.dec.first = ref.first

\* C12 witness: an unparsable line came first, then text was accumulated and
\* the result line resolved the invocation.
C12_Witness ==
  /\ Len(bench.lines) = 3
  /\ JSONparse(bench.lines[1]).type = "throw"
  /\ bench.dec.acc # <<>>
  /\ bench.dec.promise.state = "resolved"

\* C13: however the stdout content is cut into chunks, the framer yields the
\* lines it yields for the content in one chunk, and keeps what follows the
\* last newline as carry-over.
C13_FramingIdempotent ==
  bench.rest = <<>>
    => /\ bench.lines = frame(<<>>, bench.content).lines
       /\ bench.buf = frame(<<>>, bench.content).buf


IsPrefix(s, t) == Len(s) <= Len(t) /\ SubSeq(t, 1, Len(s)) = s

\* C14: each snapshot passed to onChunk extends the one before it, the
\* last one is the accumulated text, and no step truncates, reorders or
\* resets the accumulated text.
C14_Step == \A m \in Handlers : IsPrefix(h[m].acc, h'[m].acc)
C14_AccumulatorMonotone ==
  /\ [](\A m \in Handlers :
          LET snaps == h[m].onChunk
          IN /\ \A i \in 1..(Len(snaps) - 1) : IsPrefix(snaps[i], snaps[i + 1])
             /\ snaps # <<>> => snaps[Len(snaps)] = h[m].acc)
  /\ [][C14_Step]_vars

\* C14 witness: the worker of a full-mode message wrote two text events, so
\* onChunk got two snapshots, the second longer than the first.
C14_Witness ==
  \E m \in Handlers :
    /\ ~h[m].quick
    /\ Len(h[m].onChunk) = 2
    /\ Len(h[m].onChunk[2]) > Len(h[m].onChunk[1])


InFlight(m) == Invoked(m) /\ ~Settled(m)

\* C15: no two invocations for the same key are in flight at the same time.
C15_OneInFlightPerKey ==
  \A m, n \in Handlers :
    (m # n /\ h[m].key = h[n].key) => ~(InFlight(m) /\ InFlight(n))

\* C15 as amended: invocations are per message, not per key. A message has
\* at most one invocation (a worker process or an API stream, never both), a
\* filtered or reset message has none, and once its placeholder is posted a
\* message starts its invocation whatever else is in flight for its key.
C15_Step ==
  \A m \in Handlers :
    (h[m].pc = "post" /\ h'[m].pc # "post")
      => \/ h'[m].pc = "done" /\ ~Invoked(m)'
         \/ h'[m].pc = "ask" /\ InFlight(m)'
C15_OneInvocationPerMessage ==
  /\ [](\A m \in Handlers :
          /\ ~(h[m].proc # "none" /\ h[m].stream # "none")
          /\ (h[m].reset \/ h[m].pc = "ignored") => ~Invoked(m)
          /\ h[m].stream # "none" => h[m].quick
          /\ h[m].proc # "none" => ~h[m].quick)
  /\ [][C15_Step]_vars

\* C15 witness: two invocations for one key are in flight together.
C15_Witness ==
  \E m, n \in Handlers :
    /\ m < n /\ h[m].key = h[n].key
    /\ h[m].quick /\ ~h[n].quick
    /\ InFlight(m) /\ InFlight(n)

\* C16: a reset for k removes k's history entry and k's continuable flag,
\* changes no other key and no history array, and its handler starts neither
\* a worker nor an API stream.
C16_Step ==
  (Len(h') > Len(h) /\ h'[Len(h')].reset)
    => LET k == h'[Len(h')].key
       IN /\ histories' = [histories EXCEPT ![k] = NoRef]
          /\ ccSessions' = ccSessions \ {k}
          /\ heap' = heap
C16_ResetFrame ==
  /\ [](\A m \in Handlers :
          h[m].reset => /\ ~Invoked(m)
                        /\ h[m].pc \in {"resetPost", "done", "unhandled"}
                        /\ h[m].updates = <<>>)
  /\ [][C16_Step]_vars

\* C16 witness: k had been made continuable or given a history, another key
\* too; a reset for k was handled and the other key still has its state.
C16_Witness ==
  \E r \in Handlers : \E j \in Keys :
    /\ h[r].reset /\ h[r].pc = "done"
    /\ j # h[r].key
    /\ j \in ccSessions \/ histories[j] # NoRef
    /\ h[r].key \notin ccSessions /\ histories[h[r].key] = NoRef
    /\ \E m \in Handlers : /\ m < r /\ h[m].key = h[r].key
                           /\ Completed(m) /\ h[m].promise.state = "resolved"


\* C17: once a result-success event has resolved a full-mode invocation,
\* further output of the worker appends nothing to the accumulated text and
\* calls onChunk and the display no more.
C17_Step ==
  \A m \in Handlers :
    (~h[m].quick /\ h[m].results > 0 /\ h[m].promise.state = "resolved")
      => /\ h'[m].acc = h[m].acc
         /\ h'[m].onChunk = h[m].onChunk
         /\ NumKind(m, "live")' = NumKind(m, "live")
C17_OutputAfterResultIgnored == [][C17_Step]_vars

LiveTexts(updates) == SelectSeq(updates, LAMBDA u : u.kind = "live")

\* C18: a call of liveUpdate forwards its snapshot exactly when the trimmed
\* snapshot differs from the last text it forwarded ('' before the first)
\* and at least 600 ms have passed since it last forwarded.
C18_Step ==
  \A m \in Handlers :
    Len(h'[m].onChunk) = Len(h[m].onChunk) + 1
      => LET snap == trim(h'[m].onChunk[Len(h'[m].onChunk)], TrimMax)
             live == LiveTexts(h[m].updates)
             lastForwarded == IF live = <<>> THEN <<>> ELSE live[Len(live)].text
             forwarded == Len(LiveTexts(h'[m].updates)) = Len(live) + 1
         IN forwarded <=> (snap # lastForwarded /\ now - h[m].lastAt >= MinInterval)
C18_ThrottleExact == [][C18_Step]_vars

\* C19: a step of a fast-mode message leaves the continuable keys as they
\* are, a step of a full-mode message leaves the histories and their arrays as
\* they are, and askSDK, from its call to its settling, leaves every array as
\* it is.
C19_Step ==
  \A m \in DOMAIN h' :
    (m \notin DOMAIN h \/ h'[m] # h[m])
      => /\ h'[m].quick => ccSessions' = ccSessions
         /\ (~h'[m].quick /\ ~h'[m].reset) => (histories' = histories /\ heap' = heap)
         /\ (h'[m].quick /\ h'[m].pc = "ask") => heap' = heap
C19_ModesIndependent == [][C19_Step]_vars

\* C19 witness: a key made continuable by a full-mode success, then given a
\* history by a fast-mode success: it has both.
C19_Witness ==
  \E m, n \in Handlers :
    /\ m < n /\ h[m].key = h[n].key
    /\ ~h[m].quick /\ h[n].quick
    /\ h[m].promise.state = "resolved" /\ Completed(m)
    /\ h[n].promise.state = "resolved" /\ Completed(n)
    /\ h[m].key \in ccSessions
    /\ Len(Stored(h[n].key)) = 2

UserTurn(m) == [role |-> "user", content |-> <<"text", m>>]
Holds(s, turn) == \E i \in 1..Len(s) : s[i] = turn

\* C20: two fast-mode invocations for a key that overlapped (neither was
\* started with the other's turn in its messages) and both resolved, with no
\* reset for the key: the stored history holds the turns of both.
C20_NoTurnLost ==
  \A m, n \in Handlers :
    (/\ m # n /\ h[m].key = h[n].key
     /\ h[m].quick /\ h[n].quick
     /\ h[m].promise.state = "resolved" /\ Completed(m)
     /\ h[n].promise.state = "resolved" /\ Completed(n)
     /\ \A r \in Handlers : ~(h[r].reset /\ h[r].key = h[m].key)
     /\ ~Holds(h[n].messages, UserTurn(m))
     /\ ~Holds(h[m].messages, UserTurn(n)))
      => /\ Holds(Stored(h[m].key), UserTurn(m))
         /\ Holds(Stored(h[m].key), UserTurn(n))

====
